---- MODULE Spec2Model ----
(***************************************************************************)
(* State-machine model of extractor.py: the Codacy -> Semgrep converter.   *)
(*                                                                         *)
(* Python strings are modelled as sequences of one-character strings, so   *)
(* that lower(), upper(), split(), join() and the ordering used by         *)
(* sorted() are computed and not assumed.  An optional dictionary key      *)
(* (dict.get with a default) is modelled as a set with at most one         *)
(* element: {} when the key is absent, {v} when it is present with value v.*)
(***************************************************************************)
EXTENDS Integers, Sequences, FiniteSets, TLC

VARIABLES
    pc,              \* the position of the run, or of the function called on its own
    \* ---- format_rule_id called on its own
    pattern_id_in,   \* the optional 'id' key of the pattern definition
    rule_id_out,     \* {returned id}, {} before the call
    \* ---- the transformation functions called on their own
    patterns_in,     \* a sequence of pattern records
    selected_in,     \* the selected languages (lower-cased strings)
    filtered_out,    \* {filter_enabled_patterns(patterns_in)}
    languages_out,   \* {get_available_languages(patterns_in)}
    config_out,      \* {create_semgrep_config(patterns_in, selected_in)}
    \* ---- a run of main()
    token_set,             \* CODACY_API_TOKEN is set and not empty
    arg_provider,          \* --provider, {} when not given
    arg_organization,      \* --organization, {} when not given
    arg_tool,              \* --tool (SEMGREP_UUID by default)
    last_input,            \* {what the operator typed at the latest prompt}
    selected_provider,     \* {provider code} once chosen
    selected_organization, \* {organization} once chosen
    requests,              \* the GET requests issued so far, in order
    coding_standards,      \* {list returned by get_coding_standards}
    selected_standard,     \* {the chosen coding standard}
    tools,                 \* {list returned by get_tools_for_coding_standard}
    served,                \* the pattern pages the service has returned
    tool_patterns,         \* 'patterns', the accumulator of the page walk
    cursor,                \* 'cursor' of the page walk, {} for None
    enabled_patterns,      \* {filter_enabled_patterns(tool_patterns)}
    available_languages,   \* {get_available_languages(enabled_patterns)}
    selected_languages,    \* {get_user_selected_languages(...)}
    semgrep_config,        \* {create_semgrep_config(...)}
    written,               \* how many times the output file has been written
    outcome                \* how main() ended, "running" until then

fmt_vars == <<pattern_id_in, rule_id_out>>
xf_vars  == <<patterns_in, selected_in, filtered_out, languages_out, config_out>>
arg_vars == <<token_set, arg_provider, arg_organization, arg_tool>>
main_vars == <<arg_vars, last_input, selected_provider, selected_organization,
               requests, coding_standards, selected_standard, tools, served,
               tool_patterns, cursor, enabled_patterns, available_languages,
               selected_languages, semgrep_config, written, outcome>>
vars == <<pc, fmt_vars, xf_vars, main_vars>>

(***************************************************************************)
(* Bounds                                                                  *)
(***************************************************************************)
MaxIdLen == 4       \* longest pattern id drawn (besides the spec's examples)
MaxPatterns == 2    \* longest pattern sequence given to the transformations
MaxPages == 3       \* pattern pages the service serves before the model stops

(***************************************************************************)
(* Strings                                                                 *)
(***************************************************************************)
LowerChars == <<"a","b","c","d","e","f","g","h","i","j","k","l","m",
                "n","o","p","q","r","s","t","u","v","w","x","y","z">>
UpperChars == <<"A","B","C","D","E","F","G","H","I","J","K","L","M",
                "N","O","P","Q","R","S","T","U","V","W","X","Y","Z">>

Range(s) == {s[i] : i \in 1..Len(s)}

IsUpperChar(c) == \E i \in 1..26 : UpperChars[i] = c
IsLowerChar(c) == \E i \in 1..26 : LowerChars[i] = c
LetterIndex(c) == CHOOSE i \in 1..26 : UpperChars[i] = c \/ LowerChars[i] = c

\* code point of a character (ASCII)
Ord(c) ==
    IF IsUpperChar(c) THEN 64 + LetterIndex(c)
    ELSE IF IsLowerChar(c) THEN 96 + LetterIndex(c)
    ELSE IF c = "-" THEN 45
    ELSE IF c = "." THEN 46
    ELSE IF c = "{" THEN 123
    ELSE IF c = "}" THEN 125
    ELSE 32

LowerChar(c) == IF IsUpperChar(c) THEN LowerChars[LetterIndex(c)] ELSE c
UpperChar(c) == IF IsLowerChar(c) THEN UpperChars[LetterIndex(c)] ELSE c

\* str.lower(), str.upper()
Lower(s) == [i \in 1..Len(s) |-> LowerChar(s[i])]
Upper(s) == [i \in 1..Len(s) |-> UpperChar(s[i])]

\* the order of str (code point by code point, a proper prefix first)
RECURSIVE StrLess(_, _)
StrLess(a, b) ==
    IF b = <<>> THEN FALSE
    ELSE IF a = <<>> THEN TRUE
    ELSE IF Ord(Head(a)) # Ord(Head(b)) THEN Ord(Head(a)) < Ord(Head(b))
    ELSE StrLess(Tail(a), Tail(b))

\* sep in s
Contains(s, sep) == \E i \in 1..Len(s) : s[i] = sep

\* s.split(sep) for a one-character separator
RECURSIVE Split(_, _)
Split(s, sep) ==
    IF ~Contains(s, sep) THEN <<s>>
    ELSE LET i == CHOOSE k \in 1..Len(s) :
                    s[k] = sep /\ \A j \in 1..(k-1) : s[j] # sep
         IN  <<SubSeq(s, 1, i-1)>> \o Split(SubSeq(s, i+1, Len(s)), sep)

\* sep.join(parts)
RECURSIVE Join(_, _)
Join(parts, sep) ==
    IF parts = <<>> THEN <<>>
    ELSE IF Len(parts) = 1 THEN parts[1]
    ELSE parts[1] \o <<sep>> \o Join(Tail(parts), sep)

(***************************************************************************)
(* format_rule_id                                                          *)
(***************************************************************************)
\* the loop of lines 160-163: keep the first occurrence of every part
RECURSIVE UniqueParts(_, _)
UniqueParts(parts, unique_parts) ==
    IF parts = <<>> THEN unique_parts
    ELSE IF \E i \in 1..Len(unique_parts) : unique_parts[i] = Head(parts)
         THEN UniqueParts(Tail(parts), unique_parts)
         ELSE UniqueParts(Tail(parts), Append(unique_parts, Head(parts)))

UnknownRule == <<"u","n","k","n","o","w","n","-","r","u","l","e">>

\* a variant that keeps the first dotted segment instead of the last
format_rule_id_first_segment(id_opt) ==
    LET id0 == IF id_opt = {} THEN <<>> ELSE CHOOSE s \in id_opt : TRUE
        id1 == IF Contains(id0, ".") THEN Split(id0, ".")[1] ELSE id0
        id2 == IF Contains(id1, "-")
               THEN Join(UniqueParts(Split(id1, "-"), <<>>), "-")
               ELSE id1
    IN  IF id2 # <<>> THEN id2 ELSE UnknownRule

\* id_opt: the optional 'id' key of the pattern definition
format_rule_id(id_opt) ==
    LET id0 == IF id_opt = {} THEN <<>> ELSE CHOOSE s \in id_opt : TRUE
        id1 == IF Contains(id0, ".")
               THEN LET ps == Split(id0, ".") IN ps[Len(ps)]
               ELSE id0
        id2 == IF Contains(id1, "-")
               THEN Join(UniqueParts(Split(id1, "-"), <<>>), "-")
               ELSE id1
    IN  IF id2 # <<>> THEN id2 ELSE UnknownRule

(***************************************************************************)
(* Pattern records (the JSON objects of the patterns endpoint)             *)
(***************************************************************************)
\* d.get(key, default) for an optional key
Get(opt, default) == IF opt = {} THEN default ELSE CHOOSE v \in opt : TRUE

\* pattern.get("patternDefinition", {})
EmptyDef == [id |-> {}, description |-> {}, languages |-> {}, pattern |-> {}]
PatternDef(pattern) == Get(pattern.patternDefinition, EmptyDef)

(***************************************************************************)
(* filter_enabled_patterns                                                 *)
(***************************************************************************)
\* a variant that defaults a missing 'enabled' key to True
IsEnabledDefaultTrue(pattern) == Get(pattern.enabled, TRUE)

\* pattern.get("enabled", False)
IsEnabled(pattern) == Get(pattern.enabled, FALSE)

filter_enabled_patterns(patterns) == SelectSeq(patterns, IsEnabled)

(***************************************************************************)
(* get_available_languages                                                 *)
(***************************************************************************)
\* a variant that forgets lang.lower()
PatternLanguagesAsSpelled(pattern) ==
    LET pattern_languages == Get(PatternDef(pattern).languages, <<>>)
    IN  Range(pattern_languages)

\* the languages.update(...) of one pattern
PatternLanguagesLower(pattern) ==
    LET pattern_languages == Get(PatternDef(pattern).languages, <<>>)
    IN  {Lower(pattern_languages[i]) : i \in 1..Len(pattern_languages)}

\* sorted(list(S)) for a set of strings
RECURSIVE Sorted(_)
Sorted(S) ==
    IF S = {} THEN <<>>
    ELSE LET m == CHOOSE x \in S : \A y \in S \ {x} : StrLess(x, y)
         IN  <<m>> \o Sorted(S \ {m})

get_available_languages(patterns) ==
    Sorted(UNION {PatternLanguagesLower(patterns[i]) : i \in 1..Len(patterns)})

(***************************************************************************)
(* create_semgrep_config                                                   *)
(***************************************************************************)
Warning == <<"W","A","R","N","I","N","G">>
Braces  == <<"{","}">>

\* truthiness of a str
Truthy(s) == s # <<>>

\* list(S): a set iterates in an order the interpreter chooses; 'order' is
\* that order, a sequence without repetition that holds every element of S
ListOf(S, order) == SelectSeq(order, LAMBDA x : x \in S)

\* a variant that lists every language of the pattern in the rule
RuleOfAllLanguages(pattern, selected, order) ==
    LET pattern_def == PatternDef(pattern)
        message     == Get(pattern_def.description, <<>>)
        severity    == Get(pattern.severity, Warning)
        langs       == PatternLanguagesLower(pattern)
    IN  [id        |-> format_rule_id(pattern_def.id),
         languages |-> ListOf(langs, order) \o Sorted(langs \ Range(order)),
         message   |-> IF Truthy(message) THEN {message} ELSE {},
         severity  |-> IF Truthy(severity) THEN {Upper(severity)} ELSE {},
         pattern   |-> Get(pattern_def.pattern, Braces)]

\* lines 180-199: the rule of one pattern that passed the language test
RuleOf(pattern, selected, order) ==
    LET pattern_def == PatternDef(pattern)
        message     == Get(pattern_def.description, <<>>)
        severity    == Get(pattern.severity, Warning)
    IN  [id        |-> format_rule_id(pattern_def.id),
         languages |-> ListOf(PatternLanguagesLower(pattern) \cap selected, order),
         message   |-> IF Truthy(message) THEN {message} ELSE {},
         severity  |-> IF Truthy(severity) THEN {Upper(severity)} ELSE {},
         pattern   |-> Get(pattern_def.pattern, Braces)]

RECURSIVE Rules(_, _, _)
Rules(patterns, selected, order) ==
    IF patterns = <<>> THEN <<>>
    ELSE IF PatternLanguagesLower(Head(patterns)) \cap selected = {}
         THEN Rules(Tail(patterns), selected, order)
         ELSE <<RuleOf(Head(patterns), selected, order)>>
              \o Rules(Tail(patterns), selected, order)

\* selected: the selected languages as a set (set.intersection reads its
\* argument only for membership)
create_semgrep_config(patterns, selected, order) ==
    [rules |-> Rules(patterns, selected, order)]

(***************************************************************************)
(* Inputs                                                                  *)
(***************************************************************************)
SeqsUpTo(S, n) == UNION {[1..k -> S] : k \in 0..n}

\* every order in which a set can be listed
Orders(S) == {o \in [1..Cardinality(S) -> S] : Range(o) = S}

IdChars == {".", "-", "a", "b"}

\* the examples of the specification
IdEslint == <<"e","s","l","i","n","t",".","n","o","-","u","n","u","s","e","d",
              "-","v","a","r","s","-","n","o","-","u","n","u","s","e","d",
              "-","v","a","r","s">>
IdPython == <<"p","y","t","h","o","n",".","s","e","c","u","r","i","t","y",".",
              "a","u","d","i","t",".","a","u","d","i","t">>
NoUnusedVars == <<"n","o","-","u","n","u","s","e","d","-","v","a","r","s">>
Audit == <<"a","u","d","i","t">>

PatternIds == SeqsUpTo(IdChars, MaxIdLen) \cup {IdEslint, IdPython}

\* language names as the service may spell them, and selectable languages
LangGo == <<"G","o">>
Langgo == <<"g","o">>
LangC  == <<"C">>
Langc  == <<"c">>
Langpy == <<"p","y">>
LanguageLists == {{}, {<<LangGo, LangC, Langgo>>}, {<<Langpy>>}}
SelectableLanguages == {Langc, Langgo, <<"j","s">>}

SevError == <<"E","r","r","o","r">>
Severities == {{}, {<<>>}, {SevError}}

\* the definition that comes with a list of languages; the other keys are
\* absent, empty or present
DefOf(langs) ==
    IF langs = {} THEN {}
    ELSE IF langs = {<<Langpy>>}
         THEN {[id |-> {}, description |-> {<<>>}, languages |-> langs,
                pattern |-> {}]}
         ELSE {[id |-> {<<"a",".","b","-","b">>}, description |-> {<<"d">>},
                languages |-> langs, pattern |-> {<<"p">>}]}

PatternUniverse ==
    {[enabled |-> e, severity |-> sv, patternDefinition |-> DefOf(l)] :
        e \in {{}, {TRUE}, {FALSE}}, sv \in Severities, l \in LanguageLists}

main_idle ==
    /\ token_set = TRUE /\ arg_provider = {} /\ arg_organization = {}
    /\ arg_tool = <<>> /\ last_input = {} /\ selected_provider = {}
    /\ selected_organization = {} /\ requests = <<>> /\ coding_standards = {}
    /\ selected_standard = {} /\ tools = {} /\ served = <<>>
    /\ tool_patterns = <<>> /\ cursor = {} /\ enabled_patterns = {}
    /\ available_languages = {} /\ selected_languages = {}
    /\ semgrep_config = {} /\ written = 0 /\ outcome = "idle"
fmt_idle == pattern_id_in = {} /\ rule_id_out = {}
xf_idle  == /\ patterns_in = <<>> /\ selected_in = {}
            /\ filtered_out = {} /\ languages_out = {} /\ config_out = {}

(***************************************************************************)
(* format_rule_id called on every id                                       *)
(***************************************************************************)
InitRuleId ==
    /\ pc = "format_rule_id"
    /\ pattern_id_in \in {{}} \cup {{s} : s \in PatternIds}
    /\ rule_id_out = {}
    /\ xf_idle /\ main_idle

FormatRuleId ==
    /\ pc = "format_rule_id"
    /\ rule_id_out' = {format_rule_id(pattern_id_in)}
    /\ pc' = "returned"
    /\ UNCHANGED <<pattern_id_in, xf_vars, main_vars>>

NextRuleId == FormatRuleId

SpecRuleId == InitRuleId /\ [][NextRuleId]_vars

(***************************************************************************)
(* The transformations called on every pattern sequence                    *)
(***************************************************************************)
InitTransform ==
    /\ pc = "transform"
    /\ patterns_in \in SeqsUpTo(PatternUniverse, MaxPatterns)
    /\ selected_in \in SUBSET SelectableLanguages
    /\ filtered_out = {} /\ languages_out = {} /\ config_out = {}
    /\ fmt_idle /\ main_idle

FilterEnabled ==
    /\ pc = "transform"
    /\ filtered_out' = {filter_enabled_patterns(patterns_in)}
    /\ pc' = "filtered"
    /\ UNCHANGED <<patterns_in, selected_in, languages_out, config_out, fmt_vars, main_vars>>

\* the filter applied to its own output
FilterAgain ==
    /\ pc = "filtered"
    /\ \E out \in filtered_out :
          /\ patterns_in' = out
          /\ filtered_out' = {filter_enabled_patterns(out)}
    /\ pc' = "filtered_again"
    /\ UNCHANGED <<selected_in, languages_out, config_out, fmt_vars, main_vars>>

AvailableLanguages ==
    /\ pc = "transform"
    /\ languages_out' = {get_available_languages(patterns_in)}
    /\ pc' = "languages"
    /\ UNCHANGED <<patterns_in, selected_in, filtered_out, config_out, fmt_vars, main_vars>>

CreateConfig ==
    /\ pc = "transform"
    /\ \E order \in Orders(selected_in) :
          config_out' = {create_semgrep_config(patterns_in, selected_in, order)}
    /\ pc' = "config"
    /\ UNCHANGED <<patterns_in, selected_in, filtered_out, languages_out, fmt_vars, main_vars>>

NextTransform == FilterEnabled \/ FilterAgain \/ AvailableLanguages \/ CreateConfig

SpecTransform == InitTransform /\ [][NextTransform]_vars

(***************************************************************************)
(* Operator input                                                          *)
(***************************************************************************)
DigitChars == <<"0","1","2","3","4","5","6","7","8","9">>
IsAsciiDigit(c) == \E i \in 1..10 : DigitChars[i] = c
DigitValue(c) == (CHOOSE i \in 1..10 : DigitChars[i] = c) - 1
\* a character str.isdigit() accepts and int() rejects (SUPERSCRIPT TWO)
SuperscriptTwo == "sup2"

\* s.strip()
RECURSIVE StripLeft(_)
StripLeft(s) == IF s # <<>> /\ Head(s) = " " THEN StripLeft(Tail(s)) ELSE s
RECURSIVE StripRight(_)
StripRight(s) ==
    IF s # <<>> /\ s[Len(s)] = " " THEN StripRight(SubSeq(s, 1, Len(s) - 1)) ELSE s
Strip(s) == StripRight(StripLeft(s))

\* s.isdigit()
IsDigit(s) ==
    s # <<>> /\ \A i \in 1..Len(s) : IsAsciiDigit(s[i]) \/ s[i] = SuperscriptTwo

RECURSIVE DecimalValue(_)
DecimalValue(s) ==
    IF s = <<>> THEN 0
    ELSE 10 * DecimalValue(SubSeq(s, 1, Len(s) - 1)) + DigitValue(s[Len(s)])

\* int(s): {value}, {} when int raises ValueError
ParseInt(s) ==
    LET t == Strip(s)
    IN  IF t # <<>> /\ \A i \in 1..Len(t) : IsAsciiDigit(t[i])
        THEN {DecimalValue(t)} ELSE {}

VALID_PROVIDERS == {<<"g","h">>, <<"g","h","e">>, <<"b","b">>, <<"g","l">>}

\* get_user_selected_languages on the typed line: {the selection}, {} when
\* the int() of line 143 raises ValueError
get_user_selected_languages(available, line) ==
    LET tokens  == Split(line, ",")
        digits  == SelectSeq(tokens, LAMBDA t : IsDigit(Strip(t)))
        raises  == \E i \in 1..Len(digits) : ParseInt(Strip(digits[i])) = {}
        indices == [i \in 1..Len(digits) |->
                       CHOOSE v \in ParseInt(Strip(digits[i])) : TRUE]
        inrange == SelectSeq(indices, LAMBDA idx : 1 <= idx /\ idx <= Len(available))
    IN  IF raises THEN {}
        ELSE {[i \in 1..Len(inrange) |-> available[inrange[i]]]}

(***************************************************************************)
(* The service                                                             *)
(***************************************************************************)
SEMGREP_UUID == <<"s","e","m","g","r","e","p">>
OtherUuid == <<"o","t","h","e","r">>

StandardA == [id |-> 1, name |-> <<"A">>]
StandardB == [id |-> 2, name |-> <<"B">>]
StandardsLists == {<<>>, <<StandardA, StandardB>>}

ToolSemgrep == [uuid |-> {SEMGREP_UUID}, name |-> {<<"S">>}]
ToolOther   == [uuid |-> {OtherUuid}, name |-> {}]
ToolNoUuid  == [uuid |-> {}, name |-> {<<"N">>}]
ToolsLists == {<<>>, <<ToolNoUuid, ToolSemgrep>>, <<ToolOther>>}

\* a variant that falls back to the first tool when no uuid matches
get_tool_first_when_missing(tool_list, tool_uuid) ==
    LET hits == {i \in 1..Len(tool_list) : tool_list[i].uuid = {tool_uuid}}
    IN  IF hits # {} THEN {tool_list[CHOOSE i \in hits : \A j \in hits : i <= j]}
        ELSE IF tool_list # <<>> THEN {tool_list[1]} ELSE {}

\* get_tool_by_uuid: {the first tool with that uuid}, {} for None
get_tool_by_uuid(tool_list, tool_uuid) ==
    LET hits == {i \in 1..Len(tool_list) : tool_list[i].uuid = {tool_uuid}}
    IN  IF hits = {} THEN {}
        ELSE {tool_list[CHOOSE i \in hits : \A j \in hits : i <= j]}

PatternGoC == [enabled |-> {TRUE}, severity |-> {SevError},
               patternDefinition |-> DefOf({<<LangGo, LangC, Langgo>>})]
PatternPy  == [enabled |-> {FALSE}, severity |-> {},
               patternDefinition |-> DefOf({<<Langpy>>})]
PatternNoDef == [enabled |-> {TRUE}, severity |-> {<<>>},
                 patternDefinition |-> {}]
PageDatas == {<<>>, <<PatternGoC>>, <<PatternPy, PatternNoDef>>}
\* pagination.cursor: absent (or null), empty, or a token
Cursors == {{}, {<<>>}, {<<"c","1">>}, {<<"c","2">>}}
Pages == [data : PageDatas, cursor : Cursors]

\* what a GET can come to: a body, an HTTP or transport failure
\* (requests.RequestException), or a body without the expected 'data' key
Failures == {"failed", "malformed"}
Responses(bodies) ==
    {[status |-> f, body |-> {}] : f \in Failures}
        \cup {[status |-> "ok", body |-> {b}] : b \in bodies}

(***************************************************************************)
(* main()                                                                  *)
(***************************************************************************)
Request(endpoint, cur, status) ==
    [endpoint |-> endpoint, cursor |-> cur, status |-> status]

\* the except clause that takes an error of the try block
Caught(status) == IF status = "failed" THEN "api_error" ELSE "error"

Init ==
    /\ pc = "start"
    /\ token_set \in BOOLEAN
    /\ arg_provider \in {{}, {<<"b","b">>}}
    /\ arg_organization \in {{}, {<<"o">>}}
    /\ arg_tool \in {SEMGREP_UUID, OtherUuid}
    /\ last_input = {} /\ selected_provider = {} /\ selected_organization = {}
    /\ requests = <<>> /\ coding_standards = {} /\ selected_standard = {}
    /\ tools = {} /\ served = <<>> /\ tool_patterns = <<>> /\ cursor = {}
    /\ enabled_patterns = {} /\ available_languages = {}
    /\ selected_languages = {} /\ semgrep_config = {}
    /\ written = 0 /\ outcome = "running"
    /\ fmt_idle /\ xf_idle

\* a variant that does not look at the token
CheckCredentialSkipped ==
    /\ pc = "start"
    /\ pc' = "provider"
    /\ UNCHANGED <<fmt_vars, xf_vars, main_vars>>

\* lines 250-251, before the try block
CheckCredential ==
    /\ pc = "start"
    /\ IF ~token_set
       THEN pc' = "done" /\ outcome' = "escaped"
       ELSE pc' = "provider" /\ outcome' = outcome
    /\ UNCHANGED <<fmt_vars, xf_vars, arg_vars, last_input, selected_provider,
                   selected_organization, requests, coding_standards,
                   selected_standard, tools, served, tool_patterns, cursor,
                   enabled_patterns, available_languages, selected_languages,
                   semgrep_config, written>>

\* lines 255-256
ProviderFromArgs ==
    /\ pc = "provider"
    /\ arg_provider # {}
    /\ selected_provider' = arg_provider
    /\ pc' = "organization"
    /\ UNCHANGED <<fmt_vars, xf_vars, arg_vars, last_input,
                   selected_organization, requests, coding_standards,
                   selected_standard, tools, served, tool_patterns, cursor,
                   enabled_patterns, available_languages, selected_languages,
                   semgrep_config, written, outcome>>

ProviderInputs == {<<"G","L">>, <<"x","x">>, <<>>}

\* select_provider: one turn of its loop
SelectProvider ==
    /\ pc = "provider"
    /\ arg_provider = {}
    /\ \E typed \in ProviderInputs :
          /\ last_input' = {typed}
          /\ IF Lower(typed) \in VALID_PROVIDERS
             THEN selected_provider' = {Lower(typed)} /\ pc' = "organization"
             ELSE selected_provider' = selected_provider /\ pc' = pc
    /\ UNCHANGED <<fmt_vars, xf_vars, arg_vars,
                   selected_organization, requests, coding_standards,
                   selected_standard, tools, served, tool_patterns, cursor,
                   enabled_patterns, available_languages, selected_languages,
                   semgrep_config, written, outcome>>

\* lines 261-265: the organization is not validated
Organization ==
    /\ pc = "organization"
    /\ IF arg_organization # {}
       THEN selected_organization' = arg_organization /\ last_input' = last_input
       ELSE \E typed \in {<<"o">>} :
               selected_organization' = {typed} /\ last_input' = {typed}
    /\ pc' = "standards"
    /\ UNCHANGED <<fmt_vars, xf_vars, arg_vars, selected_provider,
                   requests, coding_standards,
                   selected_standard, tools, served, tool_patterns, cursor,
                   enabled_patterns, available_languages, selected_languages,
                   semgrep_config, written, outcome>>

\* get_coding_standards and lines 268-270
GetCodingStandards ==
    /\ pc = "standards"
    /\ \E resp \in Responses(StandardsLists) :
          /\ requests' = Append(requests, Request("coding-standards", {}, resp.status))
          /\ coding_standards' = resp.body
          /\ IF resp.status # "ok"
             THEN pc' = "done" /\ outcome' = Caught(resp.status)
             ELSE IF resp.body = {<<>>}
                  THEN pc' = "done" /\ outcome' = "error"
                  ELSE pc' = "select_standard" /\ outcome' = outcome
    /\ UNCHANGED <<fmt_vars, xf_vars, arg_vars, last_input, selected_provider,
                   selected_organization,
                   selected_standard, tools, served, tool_patterns, cursor,
                   enabled_patterns, available_languages, selected_languages,
                   semgrep_config, written>>

StandardInputs == {<<"1">>, <<" ","2">>, <<"0">>, <<"3">>, <<"x">>,
                   <<SuperscriptTwo>>, <<>>}

\* select_coding_standard: one turn of its loop
SelectCodingStandard ==
    /\ pc = "select_standard"
    /\ \E typed \in StandardInputs, list \in coding_standards :
          /\ last_input' = {typed}
          /\ LET selection == ParseInt(typed) IN
             IF selection # {} /\ \A n \in selection : 1 <= n /\ n <= Len(list)
             THEN /\ selected_standard' = {list[n] : n \in selection}
                  /\ pc' = "tools"
             ELSE /\ selected_standard' = selected_standard
                  /\ pc' = pc
    /\ UNCHANGED <<fmt_vars, xf_vars, arg_vars, selected_provider,
                   selected_organization, requests, coding_standards,
                   tools, served, tool_patterns, cursor,
                   enabled_patterns, available_languages, selected_languages,
                   semgrep_config, written, outcome>>

\* get_tools_for_coding_standard and lines 277-289
GetTools ==
    /\ pc = "tools"
    /\ \E resp \in Responses(ToolsLists) :
          /\ requests' = Append(requests, Request("tools", {}, resp.status))
          /\ tools' = resp.body
          /\ IF resp.status # "ok"
             THEN pc' = "done" /\ outcome' = Caught(resp.status)
             ELSE IF \A list \in resp.body : get_tool_by_uuid(list, arg_tool) = {}
                  THEN pc' = "done" /\ outcome' = "returned"
                  ELSE pc' = "patterns" /\ outcome' = outcome
    /\ UNCHANGED <<fmt_vars, xf_vars, arg_vars, last_input, selected_provider,
                   selected_organization, coding_standards,
                   selected_standard, served, tool_patterns, cursor,
                   enabled_patterns, available_languages, selected_languages,
                   semgrep_config, written>>

\* 'if cursor:' / 'if not cursor:' for a variant that tests 'is not None'
CursorNotNone(cur) == cur # {}

\* 'if cursor:' (line 107) and 'if not cursor:' (line 118)
CursorTruthy(cur) == cur # {} /\ cur # {<<>>}

\* a variant that keeps only the latest page
ReplacePatterns(patterns, data) == data

\* patterns.extend(data["data"])
ExtendPatterns(patterns, data) == patterns \o data

\* get_code_patterns_for_tool: one turn of its loop; when the loop ends,
\* lines 292-300 up to the prompt of get_user_selected_languages
FetchPatternsPage ==
    /\ pc = "patterns"
    /\ Len(served) < MaxPages
    /\ LET url_cursor == IF CursorTruthy(cursor) THEN cursor ELSE {} IN
       \E resp \in Responses(Pages) :
          /\ requests' = Append(requests, Request("patterns", url_cursor, resp.status))
          /\ IF resp.status # "ok"
             THEN /\ pc' = "done" /\ outcome' = Caught(resp.status)
                  /\ UNCHANGED <<served, tool_patterns, cursor, enabled_patterns,
                                 available_languages>>
             ELSE \E page \in resp.body :
               /\ served' = Append(served, page)
               /\ tool_patterns' = ExtendPatterns(tool_patterns, page.data)
               /\ cursor' = page.cursor
               /\ outcome' = outcome
               /\ IF ~CursorTruthy(page.cursor)
                  THEN /\ enabled_patterns' = {filter_enabled_patterns(tool_patterns')}
                       /\ available_languages' =
                             {get_available_languages(filter_enabled_patterns(tool_patterns'))}
                       /\ pc' = "languages"
                  ELSE /\ UNCHANGED <<enabled_patterns, available_languages>>
                       /\ pc' = pc
    /\ UNCHANGED <<fmt_vars, xf_vars, arg_vars, last_input, selected_provider,
                   selected_organization, coding_standards,
                   selected_standard, tools, selected_languages,
                   semgrep_config, written>>

LanguageInputs == {<<"1">>, <<"1",",","2">>, <<"2",","," ","1">>, <<"x">>,
                   <<"1",",","x">>, <<SuperscriptTwo>>, <<>>, <<"9">>,
                   <<"1",",","1">>}

\* get_user_selected_languages and lines 302-310; save_semgrep_config either
\* writes the file or raises (the file cannot be opened)
SelectLanguages ==
    /\ pc = "languages"
    /\ \E typed \in LanguageInputs, enabled \in enabled_patterns,
          available \in available_languages, saved \in BOOLEAN :
          /\ last_input' = {typed}
          /\ LET selection == get_user_selected_languages(available, typed) IN
             IF selection = {}
             THEN /\ outcome' = "error"
                  /\ UNCHANGED <<selected_languages, semgrep_config, written>>
             ELSE /\ selected_languages' = selection
                  /\ \E sel \in selection : \E order \in Orders(Range(sel)) :
                        semgrep_config' =
                            {create_semgrep_config(enabled, Range(sel), order)}
                  /\ IF saved
                     THEN written' = written + 1 /\ outcome' = "ok"
                     ELSE written' = written /\ outcome' = "error"
    /\ pc' = "done"
    /\ UNCHANGED <<fmt_vars, xf_vars, arg_vars, selected_provider,
                   selected_organization, requests, coding_standards,
                   selected_standard, tools, served, tool_patterns, cursor,
                   enabled_patterns, available_languages>>

Next ==
    \/ CheckCredential
    \/ ProviderFromArgs
    \/ SelectProvider
    \/ Organization
    \/ GetCodingStandards
    \/ SelectCodingStandard
    \/ GetTools
    \/ FetchPatternsPage
    \/ SelectLanguages

Spec == Init /\ [][Next]_vars

(***************************************************************************)
(* Properties of the functions                                             *)
(***************************************************************************)
\* the k-th smallest element of a set of indices
Kth(idx, k) == CHOOSE i \in idx : Cardinality({j \in idx : j <= i}) = k

\* out is seq restricted to the indices idx, in the order of seq
IsRestriction(out, seq, idx) ==
    /\ Len(out) = Cardinality(idx)
    /\ \A k \in 1..Len(out) : out[k] = seq[Kth(idx, k)]

\* the languages a pattern declares, lower-cased, read off the record
DeclaredLower(p) ==
    IF p.patternDefinition = {} THEN {}
    ELSE LET d == CHOOSE x \in p.patternDefinition : TRUE
         IN  IF d.languages = {} THEN {}
             ELSE LET ls == CHOOSE x \in d.languages : TRUE
                  IN  {[i \in 1..Len(l) |-> LowerChar(l[i])] : l \in Range(ls)}

\* a < b by code points: they differ first at k, or a is a proper prefix
CodePointLess(a, b) ==
    \E k \in 1..Len(b) :
        /\ k <= Len(a) + 1
        /\ \A j \in 1..(k-1) : a[j] = b[j]
        /\ \/ k = Len(a) + 1
           \/ k <= Len(a) /\ Ord(a[k]) < Ord(b[k])

\* C3: filter_enabled_patterns returns its input restricted, in order, to
\* exactly the elements whose enabled is true, and filtering that output
\* again returns it unchanged.
C3_FilterEnabled ==
    /\ pc = "filtered" =>
          \A out \in filtered_out :
              /\ IsRestriction(out, patterns_in,
                     {i \in 1..Len(patterns_in) : patterns_in[i].enabled = {TRUE}})
              /\ \A k \in 1..Len(out) : out[k].enabled = {TRUE}
    /\ pc = "filtered_again" => filtered_out = {patterns_in}

\* an enabled pattern and one that is not went in
C3_Witness ==
    /\ pc = "filtered"
    /\ \E i, j \in 1..Len(patterns_in) :
          patterns_in[i].enabled = {TRUE} /\ patterns_in[j].enabled # {TRUE}

\* C6: get_available_languages returns a strictly ascending sequence, with
\* no two entries equal when compared without case, that holds exactly the
\* lower-cased form of every language some pattern declares.
C6_AvailableLanguages ==
    pc = "languages" =>
        \A out \in languages_out :
            /\ \A i \in 1..(Len(out) - 1) : CodePointLess(out[i], out[i+1])
            /\ \A i, j \in 1..Len(out) : Lower(out[i]) = Lower(out[j]) => i = j
            /\ Range(out) =
                  UNION {DeclaredLower(patterns_in[i]) : i \in 1..Len(patterns_in)}

\* two spellings of one language and a second language went in
C6_Witness ==
    /\ pc = "languages"
    /\ \E i, j \in 1..Len(patterns_in) :
          /\ patterns_in[i].patternDefinition # {}
          /\ patterns_in[j].patternDefinition # {}
          /\ PatternDef(patterns_in[i]).languages = {<<Langpy>>}
          /\ PatternDef(patterns_in[j]).languages = {<<LangGo, LangC, Langgo>>}
    /\ languages_out = {<<Langc, Langgo, Langpy>>}

\* the indices of the patterns whose languages meet the selection
Qualifying(patterns, selected) ==
    {i \in 1..Len(patterns) : DeclaredLower(patterns[i]) \cap selected # {}}

C5_SeverityAlwaysPresent ==
    pc = "config" =>
        \A cfg \in config_out :
            LET q == Qualifying(patterns_in, selected_in) IN
            \A k \in 1..Len(cfg.rules) :
                LET p == patterns_in[Kth(q, k)]
                    r == cfg.rules[k]
                IN  /\ r.severity # {}
                    /\ r.severity = IF p.severity = {} THEN {Warning}
                                    ELSE {Upper(s) : s \in p.severity}

\* the suffix of s after its last sep, s itself when it has none
AfterLast(s, sep) ==
    LET at == {i \in 1..Len(s) : s[i] = sep}
    IN  IF at = {} THEN s
        ELSE SubSeq(s, (CHOOSE i \in at : \A j \in at : j <= i) + 1, Len(s))

\* parts without every part equal to an earlier one
FirstOccurrences(parts) ==
    LET keep == {i \in 1..Len(parts) : \A j \in 1..(i-1) : parts[j] # parts[i]}
    IN  [k \in 1..Cardinality(keep) |-> parts[Kth(keep, k)]]

PatternRequests == SelectSeq(requests, LAMBDA r : r.endpoint = "patterns")

\* the page walk has returned (line 122) and main has gone on to line 300
WalkReturned == available_languages # {}

NoCursor(page) == page.cursor = {} \/ page.cursor = {<<>>}

\* P1.data ++ P2.data ++ ... ++ Pn.data
RECURSIVE DataOf(_)
DataOf(pages) ==
    IF pages = <<>> THEN <<>>
    ELSE DataOf(SubSeq(pages, 1, Len(pages) - 1)) \o pages[Len(pages)].data

\* C1: when the walk over pages P1..Pn has returned, exactly n pattern
\* requests were issued, the first without a cursor and the k-th with the
\* cursor of page k-1, and the accumulated patterns are
\* P1.data ++ ... ++ Pn.data, nothing dropped, merged or reordered.
C1_Pagination ==
    WalkReturned =>
        /\ Len(PatternRequests) = Len(served)
        /\ Len(served) >= 1
        /\ PatternRequests[1].cursor = {}
        /\ \A k \in 2..Len(served) :
              PatternRequests[k].cursor = served[k-1].cursor
        /\ tool_patterns = DataOf(served)

\* three pages with cursors c1, c2 and none, the first and the last page
\* holding the same pattern
C1_Witness ==
    /\ WalkReturned
    /\ Len(served) = 3
    /\ served[1] = [data |-> <<PatternGoC>>, cursor |-> {<<"c","1">>}]
    /\ served[2] = [data |-> <<PatternPy, PatternNoDef>>, cursor |-> {<<"c","2">>}]
    /\ served[3] = [data |-> <<PatternGoC>>, cursor |-> {}]
    /\ Len(tool_patterns) = 4

\* C9: the walk stops at the first page without a cursor (absent, null or
\* empty) and requests nothing after it; it returns only after such a page;
\* and as long as every page carries a cursor it is still in its loop.
C9_WalkEndsAtFirstCursorlessPage ==
    /\ \A k \in 1..Len(served) :
          NoCursor(served[k]) =>
              /\ k = Len(served)
              /\ pc # "patterns"
              /\ Len(PatternRequests) = Len(served)
    /\ WalkReturned => served # <<>> /\ NoCursor(served[Len(served)])
    /\ ( /\ PatternRequests # <<>>
         /\ \A k \in 1..Len(requests) : requests[k].status = "ok"
         /\ \A k \in 1..Len(served) : ~NoCursor(served[k]) )
       => pc = "patterns" /\ ~WalkReturned

\* the second page carried an empty cursor and the walk returned
C9_Witness ==
    /\ WalkReturned
    /\ Len(served) = 2
    /\ served[1].cursor = {<<"c","2">>}
    /\ served[2].cursor = {<<>>}
    /\ Len(PatternRequests) = 2

\* C7: the output file is written at most once, as the last step, after the
\* standards, the tools and every pattern page were fetched; with no coding
\* standards, with no tool of the requested uuid, or with a failed API call
\* the run is over with no further request and nothing written.
C7_OutputWrittenOnceAtEnd ==
    /\ written <= 1
    /\ written = 1 =>
          /\ pc = "done"
          /\ coding_standards # {} /\ tools # {}
          /\ WalkReturned
          /\ served # <<>> /\ NoCursor(served[Len(served)])
          /\ Len(PatternRequests) = Len(served)
          /\ \A k \in 1..Len(requests) : requests[k].status = "ok"
    /\ coding_standards = {<<>>} =>
          pc = "done" /\ Len(requests) = 1 /\ written = 0
    /\ (\E list \in tools : \A i \in 1..Len(list) : list[i].uuid # {arg_tool}) =>
          pc = "done" /\ Len(requests) = 2 /\ written = 0
    /\ \A k \in 1..Len(requests) :
          requests[k].status # "ok" =>
              k = Len(requests) /\ pc = "done" /\ written = 0

\* the file was written after a walk of two pages, with one rule in it
C7_Witness ==
    /\ written = 1
    /\ Len(served) = 2
    /\ Len(requests) = 4
    /\ \E cfg \in semgrep_config : Len(cfg.rules) = 1

\* C8 as stated: no exception escapes main in any run.
C8_NoExceptionEscapesMain == outcome # "escaped"

\* C8 amended: the missing credential is raised before any request and is
\* not caught (it escapes main); every failure after that check is caught
\* by one of the two except clauses and main returns normally.
C8_FailuresCaughtAfterCredentialCheck ==
    /\ outcome = "escaped" => ~token_set /\ requests = <<>> /\ written = 0
    /\ (~token_set /\ pc # "start") =>
          outcome = "escaped" /\ pc = "done" /\ requests = <<>>
    /\ (token_set /\ pc = "done") =>
          outcome \in {"ok", "returned", "api_error", "error"}
    /\ \A k \in 1..Len(requests) :
          /\ requests[k].status = "failed" => outcome = "api_error"
          /\ requests[k].status = "malformed" => outcome = "error"
    /\ coding_standards = {<<>>} => outcome = "error"

\* a run without the token has ended, with the error out of main
C8_Witness ==
    /\ ~token_set
    /\ pc = "done"
    /\ outcome = "escaped"

\* what the operator typed at a prompt is no valid selection there; at the
\* languages prompt, where a line of comma-separated numbers is asked for,
\* some entry of the line is no number of a listed language (and there is
\* a language to select)
MalformedAt(prompt, typed) ==
    IF prompt = "provider" THEN Lower(typed) \notin VALID_PROVIDERS
    ELSE IF prompt = "select_standard"
    THEN \A list \in coding_standards :
            \A n \in ParseInt(typed) : ~(1 <= n /\ n <= Len(list))
    ELSE \A available \in available_languages :
            /\ available # <<>>
            /\ LET tokens == Split(typed, ",") IN
               \E i \in 1..Len(tokens) :
                   \A n \in ParseInt(tokens[i]) : ~(1 <= n /\ n <= Len(available))

\* a step taken at a prompt on a malformed input stays at the prompt
PromptsAgain ==
    pc \in {"provider", "select_standard", "languages"} =>
        \A typed \in last_input' :
            MalformedAt(pc, typed) => (pc' = pc /\ outcome' = outcome)

\* C10: at the provider, coding standard and languages prompts a malformed
\* input leaves the run at that prompt and raises nothing.
C10_MalformedInputPromptsAgain == [][PromptsAgain]_vars

====
